---- MODULE Spec2Model ----
(***************************************************************************)
(* icybox129/chatbot: the Markdown chunker and frontmatter extractor of    *)
(* preprocessing/preprocessing.py, the source labeler, history truncation  *)
(* and query orchestrator of backend/query_data.py, and the session        *)
(* handlers of app.py.                                                     *)
(*                                                                         *)
(* Text is a sequence of one-character strings.  The module holds several  *)
(* specifications over one variable tuple; each specification drives one   *)
(* component and leaves the variables of the others at their idle values.  *)
(***************************************************************************)
EXTENDS Integers, Sequences, FiniteSets, TLC

VARIABLES
    \* truncate_history (query_data.py:75-97)
    messages,            \* the argument `messages`
    max_tokens,          \* the argument `max_tokens`
    reserved_tokens,     \* the argument `reserved_tokens`
    truncated_messages,  \* the returned list
    th_pc,               \* "call" before the call, "done" after the return
    \* get_source_from_metadata (query_data.py:54-73)
    metadata,            \* the argument `metadata`, a mapping from keys to text
    source,              \* the returned label
    gs_pc,               \* "call" before the call, "done" after the return
    \* handle_query / new_conversation (app.py) and main (query_data.py:102-207)
    session,             \* the stored session: a mapping with at most the key "history"
    pc,                  \* position of the request in flight, "idle" when none
    query_text,          \* handle_query: the stripped query
    history,             \* handle_query: the local list `history`
    results,             \* main: what similarity_search_with_relevance_scores returned
    context_text,        \* main: the context built from the results
    sources,             \* main: the sorted list of source labels
    sent,                \* main: the messages passed to model.invoke
    failure,             \* main: what went wrong in this request, "none" if nothing
    outcome,             \* main: how the call ended (returned data, or raised)
    status,              \* the HTTP status of the last response, 0 before any
    body,                \* the JSON payload of the last response
    \* MarkdownSplitter.split_documents (preprocessing.py:161-183), one document
    document,            \* the document being split: page_content and metadata
    chunk_size,          \* the splitter's _chunk_size
    sections,            \* the list re.split returned
    sec_i,               \* the loop index i over the headings
    chunks,              \* the list `chunks`
    sp_pc,               \* "call", "sections" while the loop runs, "done"
    \* extract_metadata (preprocessing.py:223-265)
    raw,                 \* the argument `content`
    extracted,           \* the returned pair: metadata and content
    em_pc,               \* "call" before the call, "done" after the return
    \* main of preprocessing.py (lines 467-489), local mode
    raw_documents,       \* the texts loader.load() finds in the data directory
    documents,           \* what load_documents_from_local returned
    ing_chunks,          \* what split_text returned
    saved,               \* the chunks handed to the index
    ing_failure,         \* what went wrong in this run, "none" if nothing
    ing_pc,              \* "load", "loaded", "save", then "done" or "crashed"
    \* handle_query (app.py:64-100) for concurrent requests of one session
    store,               \* the session as the session store holds it
    req_pc,              \* per request: "new", "main", "respond", "done"
    req_query,           \* per request: the stripped query
    req_session,         \* per request: the session object loaded for it
    req_history,         \* per request: the local list `history`
    req_response         \* per request: the response main returned

thVars == <<messages, max_tokens, reserved_tokens, truncated_messages, th_pc>>
gsVars == <<metadata, source, gs_pc>>
reqVars == <<query_text, history, results, context_text, sources, sent, failure, outcome>>
appVars == <<session, pc, reqVars, status, body>>
spVars == <<document, chunk_size, sections, sec_i, chunks, sp_pc>>
emVars == <<raw, extracted, em_pc>>
ingVars == <<raw_documents, documents, ing_chunks, saved, ing_failure, ing_pc>>
concVars == <<store, req_pc, req_query, req_session, req_history, req_response>>

\* What the actions of one component leave alone.
notTrunc == <<gsVars, appVars, spVars, emVars, ingVars, concVars>>
notLabel == <<thVars, appVars, spVars, emVars, ingVars, concVars>>
notApp == <<thVars, gsVars, spVars, emVars, ingVars, concVars>>
notSplit == <<thVars, gsVars, appVars, emVars, ingVars, concVars>>
notMeta == <<thVars, gsVars, appVars, spVars, ingVars, concVars>>
notIngest == <<thVars, gsVars, appVars, spVars, emVars, concVars>>
notConc == <<thVars, gsVars, appVars, spVars, emVars, ingVars>>

-----------------------------------------------------------------------------
(***************************************************************************)
(* Text helpers                                                            *)
(***************************************************************************)

\* Python str.strip() / regex \s on the characters the model uses.
IsSpace(c) == c \in {" ", "\n"}

Min(a, b) == IF a <= b THEN a ELSE b

\* s[i:] with i a 0-based Python index, 0 <= i.
From(s, i) == SubSeq(s, i + 1, Len(s))

\* s[i:j] with 0-based Python indices, 0 <= i.
Slice(s, i, j) == SubSeq(s, i + 1, Min(j, Len(s)))

\* s.startswith(p, at) with a 0-based offset.
StartsWithAt(s, p, at) ==
    /\ at + Len(p) <= Len(s)
    /\ \A k \in 1..Len(p) : s[at + k] = p[k]

StartsWith(s, p) == StartsWithAt(s, p, 0)

\* s.find(p, start): the least 0-based index >= start where p occurs, or -1.
Find(s, p, start) ==
    LET hits == {i \in start..(Len(s) - Len(p)) : StartsWithAt(s, p, i)}
    IN  IF hits = {} THEN -1 ELSE CHOOSE i \in hits : \A j \in hits : i <= j

\* s.lstrip(), s.rstrip(), s.strip() for whitespace.
LStrip(s) ==
    LET keep == {i \in 1..Len(s) : ~IsSpace(s[i])}
    IN  IF keep = {} THEN <<>>
        ELSE SubSeq(s, CHOOSE i \in keep : \A j \in keep : i <= j, Len(s))

RStrip(s) ==
    LET keep == {i \in 1..Len(s) : ~IsSpace(s[i])}
    IN  IF keep = {} THEN <<>>
        ELSE SubSeq(s, 1, CHOOSE i \in keep : \A j \in keep : j <= i)

Strip(s) == LStrip(RStrip(s))

\* s.strip(chars): strips every leading and trailing character that is in chars.
StripChars(s, chars) ==
    LET keep == {i \in 1..Len(s) : s[i] \notin chars}
    IN  IF keep = {} THEN <<>>
        ELSE SubSeq(s, CHOOSE i \in keep : \A j \in keep : i <= j,
                       CHOOSE i \in keep : \A j \in keep : j <= i)

\* text.split("\n")
RECURSIVE SplitLines(_)
SplitLines(s) ==
    LET nl == Find(s, <<"\n">>, 0)
    IN  IF nl = -1 THEN <<s>>
        ELSE <<Slice(s, 0, nl)>> \o SplitLines(From(s, nl + 1))

\* sep.join(lines)
RECURSIVE Join(_, _)
Join(lines, sep) ==
    IF lines = <<>> THEN <<>>
    ELSE IF Len(lines) = 1 THEN lines[1]
    ELSE Head(lines) \o sep \o Join(Tail(lines), sep)

EmptyMap == [k \in {} |-> <<>>]

\* All sequences over S of length at most n.
SeqUpTo(S, n) == UNION {[1..k -> S] : k \in 0..n}

\* t is a contiguous suffix of s.
IsSuffix(t, s) ==
    /\ Len(t) <= Len(s)
    /\ \A k \in 1..Len(t) : t[k] = s[Len(s) - Len(t) + k]

-----------------------------------------------------------------------------
(***************************************************************************)
(* truncate_history                                                        *)
(***************************************************************************)

\* len(encoding.encode(content)): the tokenizer is a library; a character of
\* model text stands for a piece of text with a fixed token count, "B" for a
\* large block (a retrieved chunk or a long turn) and "@" for the fixed
\* instruction text of the system message (lines 148-155).
TokenWeight(c) == IF c = "B" THEN 1300 ELSE IF c = "@" THEN 120 ELSE 1

RECURSIVE EncodeLen(_)
EncodeLen(content) ==
    IF content = <<>> THEN 0
    ELSE TokenWeight(Head(content)) + EncodeLen(Tail(content))

\* line 88: the cost of one message, content tokens plus the overhead of 4.
MessageTokens(message) == EncodeLen(message.content) + 4

\* The loop of lines 86-94 from list index i (1-based) down to 1, with the
\* running total and the list built so far.
RECURSIVE TruncateLoop(_, _, _, _, _)
TruncateLoop(msgs, i, total, kept, maxTok) ==
    IF i = 0 THEN kept
    ELSE LET total2 == total + MessageTokens(msgs[i])
         IN  IF total2 > maxTok THEN kept
             ELSE TruncateLoop(msgs, i - 1, total2, <<msgs[i]>> \o kept, maxTok)

\* Mutant: the kept message is appended instead of inserted at the front.
TruncateHistoryAppends(msgs, maxTok, reserved) ==
    LET RECURSIVE Loop(_, _, _)
        Loop(i, total, kept) ==
            IF i = 0 THEN kept
            ELSE LET total2 == total + MessageTokens(msgs[i])
                 IN  IF total2 > maxTok THEN kept
                     ELSE Loop(i - 1, total2, Append(kept, msgs[i]))
    IN  Loop(Len(msgs), reserved, <<>>)

\* Mutant: the running total starts at 0 instead of reserved_tokens.
TruncateHistoryNoReserve(msgs, maxTok, reserved) ==
    TruncateLoop(msgs, Len(msgs), 0, <<>>, maxTok)

\* Mutant: a message that does not fit is skipped and the walk goes on.
TruncateHistorySkips(msgs, maxTok, reserved) ==
    LET RECURSIVE Loop(_, _, _)
        Loop(i, total, kept) ==
            IF i = 0 THEN kept
            ELSE LET total2 == total + MessageTokens(msgs[i])
                 IN  IF total2 > maxTok THEN Loop(i - 1, total, kept)
                     ELSE Loop(i - 1, total2, <<msgs[i]>> \o kept)
    IN  Loop(Len(msgs), reserved, <<>>)

\* Mutant: the first message is kept whatever the walk decides.
TruncateHistoryKeepsFirst(msgs, maxTok, reserved) ==
    LET kept == TruncateLoop(msgs, Len(msgs), reserved, <<>>, maxTok)
    IN  IF Len(kept) < Len(msgs) THEN <<msgs[1]>> \o kept ELSE kept

truncate_history(msgs, maxTok, reserved) ==
    TruncateLoop(msgs, Len(msgs), reserved, <<>>, maxTok)

\* The defaults of the signature, which main relies on (line 170).
DefaultMaxTokens == 3000
DefaultReservedTokens == 500

\* Bounds of the truncation inputs.
MaxMessages == 3
MaxBudget == 12
MaxReserved == 2

ThMessages ==
    {[role |-> "system", content |-> <<"B">>],
     [role |-> "user", content |-> <<>>],
     [role |-> "user", content |-> <<"a">>],
     [role |-> "assistant", content |-> <<"a", "a">>]}

Budgets == (0..MaxBudget) \cup {DefaultMaxTokens}
Reserves == (0..MaxReserved) \cup {DefaultReservedTokens}

TruncCall ==
    /\ messages \in SeqUpTo(ThMessages, MaxMessages)
    /\ max_tokens \in Budgets
    /\ reserved_tokens \in Reserves
    /\ truncated_messages = <<>>
    /\ th_pc = "call"

TruncateHistory ==
    /\ th_pc = "call"
    /\ truncated_messages' = truncate_history(messages, max_tokens, reserved_tokens)
    /\ th_pc' = "done"
    /\ UNCHANGED <<messages, max_tokens, reserved_tokens>>
    /\ UNCHANGED notTrunc

-----------------------------------------------------------------------------
(***************************************************************************)
(* get_source_from_metadata                                                *)
(***************************************************************************)

\* The characters of the model in code-point order: Python compares strings
\* code point by code point, and only the order of the codes matters.  "~"
\* stands for the backtick, which cannot be written inside a TLA+ string.
CodePointOrder ==
    <<"\n", " ", "\"", "#", "-", ".", "3", ":", "@", "A", "B", "E", "I", "N",
      "P", "S", "T", "~", "a", "b", "c", "d", "e", "g", "h", "i", "k", "l",
      "m", "n", "o", "p", "q", "r", "s", "t", "u", "v", "w", "x", "y", "|">>

CharCode(c) == CHOOSE i \in 1..Len(CodePointOrder) : CodePointOrder[i] = c

\* s < t for Python strings.
RECURSIVE StrLess(_, _)
StrLess(s, t) ==
    IF t = <<>> THEN FALSE
    ELSE IF s = <<>> THEN TRUE
    ELSE IF Head(s) = Head(t) THEN StrLess(Tail(s), Tail(t))
    ELSE CharCode(Head(s)) < CharCode(Head(t))

\* sorted(S) for a set of strings.
RECURSIVE Sorted(_)
Sorted(S) ==
    IF S = {} THEN <<>>
    ELSE LET least == CHOOSE x \in S : \A y \in S \ {x} : StrLess(x, y)
         IN  <<least>> \o Sorted(S \ {least})

\* sorted(xs) for a list of strings: duplicates stay.
RECURSIVE SortedList(_)
SortedList(xs) ==
    IF xs = <<>> THEN <<>>
    ELSE LET rest == SortedList(Tail(xs))
             before == SelectSeq(rest, LAMBDA y : StrLess(y, Head(xs)))
             after == SelectSeq(rest, LAMBDA y : ~StrLess(y, Head(xs)))
         IN  before \o <<Head(xs)>> \o after

\* metadata.get(key, "")
Get(md, key) == IF key \in DOMAIN md THEN md[key] ELSE <<>>

UnknownSource ==
    <<"u", "n", "k", "n", "o", "w", "n", " ", "s", "o", "u", "r", "c", "e">>

\* Mutant: the variant of backend/general_kb_query.py:24-34, which does not
\* strip the two values.
GetSourceUnstripped(md) ==
    LET page_title == Get(md, "page_title")
        subcategory == Get(md, "subcategory")
    IN  IF page_title # <<>> /\ subcategory # <<>>
            THEN subcategory \o <<" ", "-", " ">> \o page_title
        ELSE IF page_title # <<>> THEN page_title
        ELSE IF subcategory # <<>> THEN subcategory
        ELSE UnknownSource

get_source_from_metadata(md) ==
    LET page_title == Strip(Get(md, "page_title"))
        subcategory == Strip(Get(md, "subcategory"))
    IN  IF page_title # <<>> /\ subcategory # <<>>
            THEN subcategory \o <<" ", "-", " ">> \o page_title
        ELSE IF page_title # <<>> THEN page_title
        ELSE IF subcategory # <<>> THEN subcategory
        ELSE UnknownSource

\* The values a metadata key takes in the label specification: empty, blank,
\* and titles with and without surrounding whitespace.
LabelValues ==
    {<<>>, <<" ">>, <<"\n", " ">>, <<"S", "3">>, <<" ", "S", "3">>,
     <<"S", "3", "\n">>, <<"a", " ", "b">>, <<" ", "a", " ", "b", " ">>}

\* Every mapping from a subset of the two keys to those values.
LabelMetadata ==
    UNION {[keys -> LabelValues] : keys \in SUBSET {"page_title", "subcategory"}}

LabelCall ==
    /\ metadata \in LabelMetadata
    /\ source = <<>>
    /\ gs_pc = "call"

GetSource ==
    /\ gs_pc = "call"
    /\ source' = get_source_from_metadata(metadata)
    /\ gs_pc' = "done"
    /\ UNCHANGED metadata
    /\ UNCHANGED notLabel

-----------------------------------------------------------------------------
(***************************************************************************)
(* main (the query orchestrator) and the handlers of app.py                *)
(***************************************************************************)

GenericErrorMessage ==
    <<"A", "n", " ", "e", "r", "r", "o", "r", " ", "o", "c", "c", "u", "r",
      "r", "e", "d", " ", "w", "h", "i", "l", "e", " ", "p", "r", "o", "c",
      "e", "s", "s", "i", "n", "g", " ", "y", "o", "u", "r", " ", "r", "e",
      "q", "u", "e", "s", "t", ".">>

KnowledgeBaseMissingMessage ==
    <<"E", "r", "r", "o", "r", ":", " ", "T", "h", "e", " ", "k", "n", "o",
      "w", "l", "e", "d", "g", "e", " ", "b", "a", "s", "e", " ", "i", "s",
      " ", "m", "i", "s", "s", "i", "n", "g", ".", " ", "P", "l", "e", "a",
      "s", "e", " ", "c", "o", "n", "t", "a", "c", "t", " ", "s", "u", "p",
      "p", "o", "r", "t", ".">>

InvalidInput ==
    <<"I", "n", "v", "a", "l", "i", "d", " ", "i", "n", "p", "u", "t">>

NewConversationStarted ==
    <<"N", "e", "w", " ", "c", "o", "n", "v", "e", "r", "s", "a", "t", "i",
      "o", "n", " ", "s", "t", "a", "r", "t", "e", "d">>

\* "\n\n---\n\n", appended after every kept chunk (line 138).
Separator == <<"\n", "\n", "-", "-", "-", "\n", "\n">>

\* Scores are relevance scores in hundredths: 70 is the 0.7 of line 137.
RelevanceThreshold == 70

\* k=3 of line 126: the index returns at most three results.
TopK == 3

\* Mutant: the threshold test is strict.
RelevantStrict(score) == score > RelevanceThreshold

\* line 137
Relevant(score) == score >= RelevanceThreshold

\* The context built by the loop of lines 133-139.
RECURSIVE ContextOf(_)
ContextOf(rs) ==
    IF rs = <<>> THEN <<>>
    ELSE (IF Relevant(Head(rs).score)
              THEN Head(rs).document.page_content \o Separator
              ELSE <<>>) \o ContextOf(Tail(rs))

\* The set `sources` built by the loop of lines 133-139.
SourceSet(rs) ==
    {get_source_from_metadata(rs[i].document.metadata) :
         i \in {j \in 1..Len(rs) : Relevant(rs[j].score)}}

\* Mutant: the labels are collected in a list in arrival order and neither
\* deduplicated nor sorted.
RECURSIVE SourcesInArrivalOrder(_)
SourcesInArrivalOrder(rs) ==
    IF rs = <<>> THEN <<>>
    ELSE (IF Relevant(Head(rs).score)
              THEN <<get_source_from_metadata(Head(rs).document.metadata)>>
              ELSE <<>>) \o SourcesInArrivalOrder(Tail(rs))

\* line 142: sources = sorted(sources)
SortedSources(rs) == Sorted(SourceSet(rs))

\* The content of the system message (lines 147-158): the instruction text,
\* then the context.
SystemContent(ctx) == <<"@">> \o ctx \o <<"\n">>

\* lines 161-166: the system message, then the user and assistant turns.
BuildMessages(ctx, hist) ==
    <<[role |-> "system", content |-> SystemContent(ctx)]>>
        \o SelectSeq(hist, LAMBDA m : m.role \in {"user", "assistant"})

\* What main hands back to handle_query.
Returned(response, srcs) ==
    [raised |-> FALSE, response |-> response, sources |-> srcs]

NoOutcome == Returned(<<>>, <<>>)

\* Mutant: no handler, the exception leaves main.
MainExceptReraises == [raised |-> TRUE, response |-> <<>>, sources |-> <<>>]

\* lines 205-207: every exception raised inside the try block ends here.
MainExcept == Returned(GenericErrorMessage, <<>>)

\* session.get('history', [])
StoredHistory(sess) == IF "history" \in DOMAIN sess THEN sess["history"] ELSE <<>>

\* Bound: the number of exchanges a stored history may hold before the model
\* stops accepting queries.
MaxExchanges == 2

\* The request bodies' query values, the retrievable chunks, their scores and
\* the chat model's replies.
RawQueries == {<<>>, <<" ">>, <<"a">>, <<" ", "a", "\n">>, <<"B">>}

S3 == <<"S", "3">>
Storage == <<"S", "t", "o", "r", "a", "g", "e">>

Documents ==
    {[page_content |-> <<"a">>,
      metadata |-> ("page_title" :> S3 @@ "subcategory" :> Storage)],
     [page_content |-> <<"b">>, metadata |-> ("page_title" :> S3)],
     [page_content |-> <<"c">>,
      metadata |-> ("page_title" :> Storage \o <<" ", "-", " ", " ">> \o S3)],
     [page_content |-> <<"B">>, metadata |-> EmptyMap]}

Scores == {50, 70, 90}

ResultLists ==
    SeqUpTo({[document |-> d, score |-> s] : d \in Documents, s \in Scores}, TopK)

Replies == {<<"r">>, <<" ", "r", "\n">>}

CollaboratorFailures == {"embedding", "index", "model"}

IdleRequest ==
    /\ query_text = <<>>
    /\ history = <<>>
    /\ results = <<>>
    /\ context_text = <<>>
    /\ sources = <<>>
    /\ sent = <<>>
    /\ outcome = NoOutcome

AppStart ==
    /\ session = EmptyMap
    /\ pc = "idle"
    /\ IdleRequest
    /\ failure = "none"
    /\ status = 0
    /\ body = EmptyMap

\* Mutant: the query is not stripped before it is tested.
HandleQueryUnstripped(text) ==
    IF text = <<>>
    THEN /\ status' = 400
         /\ body' = ("error" :> InvalidInput)
         /\ failure' = "none"
         /\ UNCHANGED <<session, pc, query_text, history, results,
                        context_text, sources, sent, outcome>>
    ELSE /\ Len(StoredHistory(session)) < 2 * MaxExchanges
         /\ query_text' = text
         /\ history' = Append(StoredHistory(session),
                              [role |-> "user", content |-> text])
         /\ failure' = "none"
         /\ pc' = "main"
         /\ UNCHANGED <<session, results, context_text, sources, sent,
                        outcome, status, body>>

\* handle_query, lines 77-88, for a request whose query value is text:
\* validate the query, read the stored history and append the user turn to
\* the local list.
HandleQuery(text) ==
    LET q == Strip(text)
    IN  IF q = <<>>
        THEN /\ status' = 400
             /\ body' = ("error" :> InvalidInput)
             /\ failure' = "none"
             /\ UNCHANGED <<session, pc, query_text, history, results,
                            context_text, sources, sent, outcome>>
        ELSE /\ Len(StoredHistory(session)) < 2 * MaxExchanges
             /\ query_text' = q
             /\ history' = Append(StoredHistory(session),
                                  [role |-> "user", content |-> q])
             /\ failure' = "none"
             /\ pc' = "main"
             /\ UNCHANGED <<session, results, context_text, sources, sent,
                            outcome, status, body>>

QueryReceive ==
    /\ UNCHANGED notApp
    /\ pc = "idle"
    /\ \E text \in RawQueries : HandleQuery(text)

\* Mutant: a missing index is answered like any other failure.
MainIndexMissingGeneric ==
    /\ UNCHANGED notApp
    /\ pc = "main"
    /\ failure' = "index_missing"
    /\ outcome' = MainExcept
    /\ pc' = "respond"
    /\ UNCHANGED <<session, query_text, history, results, context_text, sources,
                   sent, status, body>>

\* main, lines 110-113: the index directory does not exist.
MainIndexMissing ==
    /\ UNCHANGED notApp
    /\ pc = "main"
    /\ failure' = "index_missing"
    /\ outcome' = Returned(KnowledgeBaseMissingMessage, <<>>)
    /\ pc' = "respond"
    /\ UNCHANGED <<session, query_text, history, results, context_text, sources,
                   sent, status, body>>

\* main, lines 118-126: the embedding function or the index raises.
MainRetrieveFails ==
    /\ UNCHANGED notApp
    /\ pc = "main"
    /\ \E f \in {"embedding", "index"} : failure' = f
    /\ outcome' = MainExcept
    /\ pc' = "respond"
    /\ UNCHANGED <<session, query_text, history, results, context_text, sources,
                   sent, status, body>>

\* main, lines 118-170: the index answers; the context, the sources and the
\* truncated message list are built.
MainRetrieve ==
    /\ UNCHANGED notApp
    /\ pc = "main"
    /\ \E rs \in ResultLists :
         /\ results' = rs
         /\ context_text' = ContextOf(rs)
         /\ sources' = SortedSources(rs)
         /\ sent' = truncate_history(BuildMessages(ContextOf(rs), history),
                                     DefaultMaxTokens, DefaultReservedTokens)
    /\ pc' = "invoke"
    /\ UNCHANGED <<session, query_text, history, failure, outcome, status, body>>

\* main, lines 183-203: the chat model replies; the response carries the
\* stripped reply and sorted(list(sources)).
MainInvoke ==
    /\ UNCHANGED notApp
    /\ pc = "invoke"
    /\ \E reply \in Replies :
         outcome' = Returned(Strip(reply), SortedList(sources))
    /\ pc' = "respond"
    /\ UNCHANGED <<session, query_text, history, results, context_text, sources,
                   sent, failure, status, body>>

\* main, line 183: the chat model raises.
MainInvokeFails ==
    /\ UNCHANGED notApp
    /\ pc = "invoke"
    /\ failure' = "model"
    /\ outcome' = MainExcept
    /\ pc' = "respond"
    /\ UNCHANGED <<session, query_text, history, results, context_text, sources,
                   sent, status, body>>

\* handle_query, lines 91-100: append the assistant turn, store the history
\* and answer.  An exception leaving main would end the request with a 500
\* before the history is stored.
QueryRespond ==
    /\ UNCHANGED notApp
    /\ pc = "respond"
    /\ IF outcome.raised
       THEN /\ status' = 500
            /\ body' = EmptyMap
            /\ UNCHANGED session
       ELSE /\ session' = ("history" :>
                   Append(history, [role |-> "assistant",
                                    content |-> outcome.response]))
            /\ status' = 200
            /\ body' = ("response" :> outcome.response @@
                        "sources" :> outcome.sources)
    /\ pc' = "idle"
    /\ query_text' = <<>>
    /\ history' = <<>>
    /\ results' = <<>>
    /\ context_text' = <<>>
    /\ sources' = <<>>
    /\ sent' = <<>>
    /\ outcome' = NoOutcome
    /\ UNCHANGED failure

\* Mutant: the reset answers without removing the stored history.
NewConversationKeepsHistory ==
    /\ UNCHANGED notApp
    /\ pc = "idle"
    /\ status' = 200
    /\ body' = ("message" :> NewConversationStarted)
    /\ failure' = "none"
    /\ UNCHANGED <<session, pc, reqVars>>

\* new_conversation, lines 102-113.
NewConversation ==
    /\ UNCHANGED notApp
    /\ pc = "idle"
    /\ session' = EmptyMap
    /\ status' = 200
    /\ body' = ("message" :> NewConversationStarted)
    /\ failure' = "none"
    /\ UNCHANGED <<pc, reqVars>>

-----------------------------------------------------------------------------
(***************************************************************************)
(* MarkdownSplitter                                                        *)
(***************************************************************************)

\* The fence of three backticks.
Fence == <<"~", "~", "~">>

\* The number of consecutive "#" characters of s from 0-based index p on.
RECURSIVE HashRun(_, _)
HashRun(s, p) ==
    IF p < Len(s) /\ s[p + 1] = "#" THEN 1 + HashRun(s, p + 1) ELSE 0

\* The 0-based index of the first "\n" of s at or after p, Len(s) if none:
\* where a greedy ".*" started at p ends.
LineEnd(s, p) ==
    LET nl == {i \in p..(Len(s) - 1) : s[i + 1] = "\n"}
    IN  IF nl = {} THEN Len(s) ELSE CHOOSE i \in nl : \A j \in nl : i <= j

\* The pattern "\n#{1,6} .*" of line 167 tried at 0-based index p: the end of
\* the match (exclusive), or -1.  It matches a newline, one to six "#", a
\* space and the rest of the line.
HeadingMatch(s, p) ==
    LET n == HashRun(s, p + 1)
    IN  IF /\ p < Len(s)
           /\ s[p + 1] = "\n"
           /\ n \in 1..6
           /\ p + 1 + n < Len(s)
           /\ s[p + 2 + n] = " "
        THEN LineEnd(s, p + 2 + n)
        ELSE -1

\* re.split(r"(\n#{1,6} .*)", s[start:]): the text before each match, the
\* match, ..., the text after the last match.
RECURSIVE SplitHeadingsFrom(_, _)
SplitHeadingsFrom(s, start) ==
    LET hits == {p \in start..(Len(s) - 1) : HeadingMatch(s, p) # -1}
    IN  IF hits = {} THEN <<From(s, start)>>
        ELSE LET p == CHOOSE i \in hits : \A j \in hits : i <= j
                 e == HeadingMatch(s, p)
             IN  <<Slice(s, start, p), Slice(s, p, e)>> \o SplitHeadingsFrom(s, e)

\* The pattern (~~~[\w]*[\s\S]*?~~~|~[^~\n]+~), "~" being the backtick, of line 191 tried at 0-based
\* index p: the end of the match (exclusive), or -1.  The fenced alternative
\* is tried first and ends with the first fence after the opening one; the
\* inline alternative is a backtick, one or more characters that are neither
\* backtick nor newline, and a backtick.
CodeMatch(s, p) ==
    LET close == Find(s, Fence, p + 3)
        stop == {i \in (p + 1)..(Len(s) - 1) : s[i + 1] \in {"~", "\n"}}
        q == CHOOSE i \in stop : \A j \in stop : i <= j
    IN  IF StartsWithAt(s, Fence, p) /\ close # -1 THEN close + 3
        ELSE IF /\ p < Len(s)
                /\ s[p + 1] = "~"
                /\ stop # {}
                /\ s[q + 1] = "~"
                /\ q > p + 1
             THEN q + 1
        ELSE -1

\* re.split(code_block_pattern, s[start:])
RECURSIVE SplitCodeFrom(_, _)
SplitCodeFrom(s, start) ==
    LET hits == {p \in start..(Len(s) - 1) : CodeMatch(s, p) # -1}
    IN  IF hits = {} THEN <<From(s, start)>>
        ELSE LET p == CHOOSE i \in hits : \A j \in hits : i <= j
                 e == CodeMatch(s, p)
             IN  <<Slice(s, start, p), Slice(s, p, e)>> \o SplitCodeFrom(s, e)

\* The loop of lines 197-211 over the parts from index k on, with the list
\* of chunks and current_chunk so far; then the leftover of lines 214-215.
RECURSIVE CodeBlockLoop(_, _, _, _, _)
CodeBlockLoop(parts, k, out, current, size) ==
    IF k > Len(parts)
    THEN IF current # <<>> THEN Append(out, Strip(current)) ELSE out
    ELSE LET part == parts[k]
         IN  IF StartsWith(part, Fence)
             THEN CodeBlockLoop(parts, k + 1,
                      (IF current # <<>> THEN Append(out, Strip(current)) ELSE out)
                          \o <<Strip(part)>>,
                      <<>>, size)
             ELSE LET grown == current \o part
                  IN  IF Len(grown) > size
                      THEN CodeBlockLoop(parts, k + 1, Append(out, Strip(grown)),
                                         <<>>, size)
                      ELSE CodeBlockLoop(parts, k + 1, out, grown, size)

\* Mutant: a fenced block is accumulated like any other part.
SplitByCodeBlocksMerged(text, size) ==
    LET RECURSIVE Loop(_, _, _, _)
        Loop(parts, k, out, current) ==
            IF k > Len(parts)
            THEN IF current # <<>> THEN Append(out, Strip(current)) ELSE out
            ELSE LET grown == current \o parts[k]
                 IN  IF Len(grown) > size
                     THEN Loop(parts, k + 1, Append(out, Strip(grown)), <<>>)
                     ELSE Loop(parts, k + 1, out, grown)
    IN  Loop(SplitCodeFrom(text, 0), 1, <<>>, <<>>)

\* split_by_code_blocks, lines 185-217, for a splitter of the given chunk size.
split_by_code_blocks(text, size) ==
    CodeBlockLoop(SplitCodeFrom(text, 0), 1, <<>>, <<>>, size)

\* The chunk size split_text gives the splitter (line 356).
SplitTextChunkSize == 500

\* lines 171-181: the chunks of the section whose heading is sections[i]
\* (i a 0-based index), each with the document's metadata and the heading.
SectionChunks(doc, secs, i, size) ==
    LET heading == Strip(secs[i + 1])
        section_content == IF i + 1 < Len(secs) THEN secs[i + 2] ELSE <<>>
        section_chunks == split_by_code_blocks(heading \o <<"\n">> \o section_content,
                                               size)
        chunk_metadata ==
            [k \in DOMAIN doc.metadata \cup {"heading"} |->
                 IF k = "heading" THEN StripChars(heading, {"#", " "})
                 ELSE doc.metadata[k]]
    IN  [k \in 1..Len(section_chunks) |->
             [page_content |-> section_chunks[k], metadata |-> chunk_metadata]]

\* Bound: the number of lines of a document.
MaxLines == 5

\* The lines documents are made of: a heading, text, a fence, a blank line,
\* an inline code span and a heading that ends in "#".
DocLines ==
    {<<"#", " ", "h">>, <<"x">>, Fence, <<>>, <<"~", "c", "~">>,
     <<"#", "#", " ", "c", "#">>}

\* The chunk sizes a splitter is built with: a small one, and split_text's.
ChunkSizes == {4, SplitTextChunkSize}

SplitCall ==
    /\ document \in {[page_content |-> Join(ls, <<"\n">>), metadata |-> EmptyMap] :
                         ls \in SeqUpTo(DocLines, MaxLines)}
    /\ chunk_size \in ChunkSizes
    /\ sections = <<>>
    /\ sec_i = 0
    /\ chunks = <<>>
    /\ sp_pc = "call"

\* split_documents, line 167: split the content on heading lines.
SplitOnHeadings ==
    /\ UNCHANGED notSplit
    /\ sp_pc = "call"
    /\ sections' = SplitHeadingsFrom(document.page_content, 0)
    /\ sec_i' = 1
    /\ sp_pc' = "sections"
    /\ UNCHANGED <<document, chunk_size, chunks>>

\* split_documents, lines 170-181: one pass of the loop over the headings.
SplitSection ==
    /\ UNCHANGED notSplit
    /\ sp_pc = "sections"
    /\ sec_i < Len(sections)
    /\ chunks' = chunks \o SectionChunks(document, sections, sec_i, chunk_size)
    /\ sec_i' = sec_i + 2
    /\ UNCHANGED <<document, chunk_size, sections, sp_pc>>

\* split_documents, line 183: the loop is over.
SplitReturn ==
    /\ UNCHANGED notSplit
    /\ sp_pc = "sections"
    /\ sec_i >= Len(sections)
    /\ sp_pc' = "done"
    /\ UNCHANGED <<document, chunk_size, sections, sec_i, chunks>>

-----------------------------------------------------------------------------
(***************************************************************************)
(* extract_metadata                                                        *)
(***************************************************************************)

\* The frontmatter delimiter.
Delimiter == <<"-", "-", "-">>

\* A character of the regex class \w.
IsWord(c) == c \notin {"\n", " ", "\"", "#", "-", ".", ":", "@", "~", "|", "\\"}

\* The lengths of the runs of word characters and of whitespace of s from
\* 0-based index p on.
RECURSIVE WordRun(_, _)
WordRun(s, p) ==
    IF p < Len(s) /\ IsWord(s[p + 1]) THEN 1 + WordRun(s, p + 1) ELSE 0

RECURSIVE SpaceRun(_, _)
SpaceRun(s, p) ==
    IF p < Len(s) /\ IsSpace(s[p + 1]) THEN 1 + SpaceRun(s, p + 1) ELSE 0

RECURSIVE DashSpaceRun(_, _)
DashSpaceRun(s, p) ==
    IF p < Len(s) /\ (IsSpace(s[p + 1]) \/ s[p + 1] = "-")
    THEN 1 + DashSpaceRun(s, p + 1) ELSE 0

\* The lookahead (?=\s+\w+:|$) of line 238 at 0-based index e.  Without the
\* MULTILINE flag "$" is the end of the text or the place before a final
\* newline.
PairLookahead(s, e) ==
    LET sp == SpaceRun(s, e)
        w == WordRun(s, e + sp)
    IN  \/ /\ sp >= 1
           /\ w >= 1
           /\ e + sp + w < Len(s)
           /\ s[e + sp + w + 1] = ":"
        \/ e = Len(s)
        \/ e = Len(s) - 1 /\ s[Len(s)] = "\n"

\* The pattern (\w+):\s*("[^"]*"|\|[-\s]*\w+.*?)(?=\s+\w+:|$) of line 238
\* tried at 0-based index p: the key, the value and the end of the match.
\* The quoted alternative ends at the first quote after the opening one; the
\* block alternative is "|", dashes and whitespace, a word, and then as few
\* characters of the line as the lookahead allows.
PairMatch(s, p) ==
    LET k == WordRun(s, p)
        v == p + k + 1 + SpaceRun(s, p + k + 1)
        quotes == {i \in (v + 1)..(Len(s) - 1) : s[i + 1] = "\""}
        close == CHOOSE i \in quotes : \A j \in quotes : i <= j
        w0 == v + 1 + DashSpaceRun(s, v + 1)
        e0 == w0 + WordRun(s, w0)
        ends == {e \in e0..Len(s) :
                    /\ \A i \in e0..(e - 1) : s[i + 1] # "\n"
                    /\ PairLookahead(s, e)}
        e1 == CHOOSE e \in ends : \A j \in ends : e <= j
        none == [ok |-> FALSE, key |-> <<>>, value |-> <<>>, end |-> p]
    IN  IF ~(k >= 1 /\ p + k < Len(s) /\ s[p + k + 1] = ":" /\ v < Len(s))
        THEN none
        ELSE IF s[v + 1] = "\"" /\ quotes # {} /\ PairLookahead(s, close + 1)
        THEN [ok |-> TRUE, key |-> Slice(s, p, p + k),
              value |-> Slice(s, v, close + 1), end |-> close + 1]
        ELSE IF s[v + 1] = "|" /\ e0 > w0 /\ ends # {}
        THEN [ok |-> TRUE, key |-> Slice(s, p, p + k),
              value |-> Slice(s, v, e1), end |-> e1]
        ELSE none

\* re.findall(pattern, s[start:]): the (key, value) pairs, left to right.
RECURSIVE FindPairsFrom(_, _)
FindPairsFrom(s, start) ==
    LET hits == {p \in start..(Len(s) - 1) : PairMatch(s, p).ok}
    IN  IF hits = {} THEN <<>>
        ELSE LET m == PairMatch(s, CHOOSE i \in hits : \A j \in hits : i <= j)
             IN  <<m>> \o FindPairsFrom(s, m.end)

\* The escapes of a YAML double-quoted scalar: those that stand for a
\* character of the model's texts, those that stand for another character
\* (written here as one element holding the escape), and the numeric ones
\* with the number of hexadecimal digits they take.
YamlEscapes ==
    ("n" :> "\n") @@ ("t" :> "\t") @@ ("\\" :> "\\") @@ ("\"" :> "\"")
        @@ ("/" :> "/") @@ (" " :> " ")

YamlControlEscapes == {"0", "a", "b", "v", "f", "e", "N", "_", "L", "P"}

YamlNumericEscapes == ("x" :> 2) @@ ("u" :> 4) @@ ("U" :> 8)

IsHex(c) ==
    c \in {"0", "1", "2", "3", "4", "5", "6", "7", "8", "9",
            "a", "b", "c", "d", "e", "f", "A", "B", "C", "D", "E", "F"}

\* The number of characters an escape starting with the backslash at 0-based
\* index p of s takes, 0 when the scanner rejects it (an unknown escape
\* character, too few hexadecimal digits, or nothing after the backslash).
EscapeLen(s, p) ==
    IF p + 1 >= Len(s) THEN 0
    ELSE LET c == s[p + 2]
         IN  IF c \in DOMAIN YamlEscapes \cup YamlControlEscapes THEN 2
             ELSE IF c \in DOMAIN YamlNumericEscapes
             THEN LET n == YamlNumericEscapes[c]
                  IN  IF /\ p + 2 + n <= Len(s)
                         /\ \A i \in (p + 3)..(p + 2 + n) : IsHex(s[i])
                      THEN 2 + n ELSE 0
             ELSE 0

\* Whether scanning the inside s of a double-quoted scalar from 0-based index
\* p on raises yaml.scanner.ScannerError.
RECURSIVE EscapeError(_, _)
EscapeError(s, p) ==
    IF p >= Len(s) THEN FALSE
    ELSE IF s[p + 1] # "\\" THEN EscapeError(s, p + 1)
    ELSE EscapeLen(s, p) = 0 \/ EscapeError(s, p + EscapeLen(s, p))

\* The inside s of a double-quoted scalar with its escapes replaced, from
\* 0-based index p on.
RECURSIVE Unescape(_, _)
Unescape(s, p) ==
    IF p >= Len(s) THEN <<>>
    ELSE IF s[p + 1] # "\\" \/ EscapeLen(s, p) = 0
    THEN <<s[p + 1]>> \o Unescape(s, p + 1)
    ELSE LET c == s[p + 2]
         IN  (IF c \in DOMAIN YamlEscapes THEN <<YamlEscapes[c]>>
              ELSE <<Slice(s, p, p + EscapeLen(s, p))>>)
                 \o Unescape(s, p + EscapeLen(s, p))

\* What yaml.safe_load makes of a value formatted by lines 245-253.  A
\* double-quoted scalar loses its quotes, has each line break folded into a
\* space and its escapes replaced; a literal block "key: |" followed by the
\* indented, stripped lines of the value is those lines, each ended by a
\* newline.
YamlValue(value) ==
    LET block == SplitLines(Strip(value))
        quoted == SplitLines(SubSeq(value, 2, Len(value) - 1))
        folded == [i \in DOMAIN quoted |->
                       IF Len(quoted) = 1 THEN quoted[i]
                       ELSE IF i = 1 THEN RStrip(quoted[i])
                       ELSE IF i = Len(quoted) THEN LStrip(quoted[i])
                       ELSE Strip(quoted[i])]
    IN  IF StartsWith(value, <<"|">>)
        THEN Join([i \in DOMAIN block |-> Strip(block[i])], <<"\n">>) \o <<"\n">>
        ELSE Unescape(Join(folded, <<" ">>), 0)

\* Whether yaml.safe_load raises on the formatted pairs: a double-quoted
\* value holds an escape the scanner rejects.
YamlRaises(pairs) ==
    \E i \in 1..Len(pairs) :
        /\ ~StartsWith(pairs[i].value, <<"|">>)
        /\ EscapeError(SubSeq(pairs[i].value, 2, Len(pairs[i].value) - 1), 0)

\* yaml.safe_load(formatted_frontmatter), lines 241-258: None when no pair was
\* found, else the mapping of the pairs, a later pair replacing an earlier
\* one of the same key.
RECURSIVE YamlMapping(_)
YamlMapping(pairs) ==
    IF pairs = <<>> THEN EmptyMap
    ELSE LET last == pairs[Len(pairs)]
             rest == YamlMapping(SubSeq(pairs, 1, Len(pairs) - 1))
         IN  [k \in DOMAIN rest \cup {last.key} |->
                  IF k = last.key THEN YamlValue(last.value) ELSE rest[k]]

YamlLoad(pairs) ==
    [is_none |-> pairs = <<>>, mapping |-> YamlMapping(pairs)]

\* The pair ({}, "") and an exception leaving the function.
NothingExtracted ==
    [raises |-> FALSE, metadata |-> [is_none |-> FALSE, mapping |-> EmptyMap],
     content |-> <<>>]

ExtractRaises == [NothingExtracted EXCEPT !.raises = TRUE]

\* Mutant: the fallback trims the text it hands back.
ExtractMetadataTrims(text) ==
    LET frontmatter_end == Find(text, Delimiter, 3)
        frontmatter == Strip(Slice(text, 3, frontmatter_end))
        pairs == FindPairsFrom(frontmatter, 0)
    IN  IF StartsWith(text, Delimiter) /\ frontmatter_end # -1
        THEN IF YamlRaises(pairs) THEN ExtractRaises
             ELSE [raises |-> FALSE, metadata |-> YamlLoad(pairs),
                   content |-> Strip(From(text, frontmatter_end + 3))]
        ELSE [NothingExtracted EXCEPT !.content = Strip(text)]

\* extract_metadata, lines 223-265: the metadata and the content returned,
\* or the exception of yaml.safe_load (line 258), which nothing catches.
extract_metadata(text) ==
    LET frontmatter_end == Find(text, Delimiter, 3)
        frontmatter == Strip(Slice(text, 3, frontmatter_end))
        pairs == FindPairsFrom(frontmatter, 0)
    IN  IF StartsWith(text, Delimiter) /\ frontmatter_end # -1
        THEN IF YamlRaises(pairs) THEN ExtractRaises
             ELSE [raises |-> FALSE, metadata |-> YamlLoad(pairs),
                   content |-> Strip(From(text, frontmatter_end + 3))]
        ELSE [NothingExtracted EXCEPT !.content = text]

\* The documents of the frontmatter specification.  RoundTrip(key, value,
\* rest) is the text ---\nkey: "value"\n---\nBODY with rest as BODY.
RoundTrip(key, value, rest) ==
    Delimiter \o <<"\n">> \o key \o <<":", " ", "\"">> \o value
        \o <<"\"", "\n">> \o Delimiter \o <<"\n">> \o rest

MetaKeys == {<<"k">>, <<"k", "t">>}

MetaValues ==
    {<<>>, <<"v">>, <<"v", " ", "v">>, <<"-">>, <<"t", ":", " ", "v">>,
     <<"v", "-", "-", "-", "v">>, <<"-", "-", "-">>}

MetaBodies ==
    {<<>>, <<"x">>, <<" ", "x", "\n">>, <<"#", " ", "h", "\n", "\n", "x">>,
     <<"x", "-", "-", "-", "x">>, <<"-", "-", "-">>}

\* Documents that are not of that form: no frontmatter, no closing
\* delimiter, two keys, a block value, nothing to parse, escapes in the
\* value, text before the opening delimiter.
OtherDocs ==
    {<<>>,
     <<"x">>,
     <<"#", " ", "h", "\n", "x", " ">>,
     Delimiter,
     Delimiter \o <<"\n", "k", ":", " ", "\"", "v", "\"", "\n">>,
     <<"x", "\n">> \o Delimiter \o <<"\n", "k", ":", " ", "\"", "v", "\"", "\n">>
         \o Delimiter,
     Delimiter \o <<"\n", "k", ":", " ", "\"", "v", "\"", "\n", "t", ":", " ",
                    "\"", "x", "\"", "\n">> \o Delimiter \o <<"\n", "x">>,
     Delimiter \o <<"\n", "k", ":", " ", "|", "-", "\n", " ", " ", "v", " ", "v",
                    "\n", "t", ":", " ", "\"", "x", "\"", "\n">>
         \o Delimiter \o <<"\n", "x">>,
     Delimiter \o <<"\n", "k", ":", " ", "v", "\n">> \o Delimiter \o <<"\n", "x">>,
     Delimiter \o <<"\n">> \o Delimiter \o <<"\n", "x">>,
     Delimiter \o <<"\n", "k", ":", " ", "\"", "\\", "k", "\"", "\n">>
         \o Delimiter \o <<"\n", "x">>,
     Delimiter \o <<"\n", "k", ":", " ", "\"", "\\", "n", "\\", "0", "\"", "\n">>
         \o Delimiter \o <<"\n", "x">>,
     <<" ">> \o Delimiter \o <<"\n", "k", ":", " ", "\"", "v", "\"", "\n">>
         \o Delimiter \o <<"\n", "x", " ">>,
     Delimiter \o <<"\n", "k", ":", " ", "\"", "\\", "k", "\"", "\n", "x", " ">>,
     Delimiter \o <<"-", "\n", "x", "\n">>}

MetaDocs ==
    {RoundTrip(k, v, b) : k \in MetaKeys, v \in MetaValues, b \in MetaBodies}
        \cup OtherDocs

MetaCall ==
    /\ raw \in MetaDocs
    /\ extracted = NothingExtracted
    /\ em_pc = "call"

ExtractMetadata ==
    /\ UNCHANGED notMeta
    /\ em_pc = "call"
    /\ extracted' = extract_metadata(raw)
    /\ em_pc' = "done"
    /\ UNCHANGED raw

-----------------------------------------------------------------------------
(***************************************************************************)
(* The ingestion pipeline: main of preprocessing.py in local mode          *)
(***************************************************************************)

\* The loop of split_documents (lines 170-181) over the headings of one
\* document, from the 0-based index i on.
RECURSIVE SectionsLoop(_, _, _, _)
SectionsLoop(doc, secs, i, size) ==
    IF i >= Len(secs) THEN <<>>
    ELSE SectionChunks(doc, secs, i, size) \o SectionsLoop(doc, secs, i + 2, size)

\* split_documents (lines 161-183) on one document.
DocumentChunks(doc, size) ==
    SectionsLoop(doc, SplitHeadingsFrom(doc.page_content, 0), 1, size)

\* split_documents on a list of documents.
RECURSIVE split_documents(_, _)
split_documents(docs, size) ==
    IF docs = <<>> THEN <<>>
    ELSE DocumentChunks(Head(docs), size) \o split_documents(Tail(docs), size)

\* Line 179, {**doc.metadata}, raises TypeError when the metadata is None;
\* it is reached for a document that has at least one heading.
SplitRaises(docs) ==
    \E k \in 1..Len(docs) :
        /\ docs[k].metadata.is_none
        /\ Len(SplitHeadingsFrom(docs[k].page_content, 0)) > 1

\* The loop of lines 293-297 of load_documents_from_local.  The list of
\* documents, or the exception that ends the loop: extract_metadata raises
\* (line 295), or Document rejects a metadata of None (line 297).  Whether
\* Document accepts None is the library's choice (accepts).
LoadRaises(raws, accepts) ==
    \E k \in 1..Len(raws) :
        LET e == extract_metadata(raws[k])
        IN  e.raises \/ (e.metadata.is_none /\ ~accepts)

\* The keys of a loaded mapping as the strings the metadata of a Document
\* is keyed with.
RECURSIVE KeyName(_)
KeyName(key) == IF key = <<>> THEN "" ELSE Head(key) \o KeyName(Tail(key))

DocumentMetadata(md) ==
    [is_none |-> md.is_none,
     mapping |-> [n \in {KeyName(k) : k \in DOMAIN md.mapping} |->
                      md.mapping[CHOOSE k \in DOMAIN md.mapping : KeyName(k) = n]]]

LoadedDocuments(raws) ==
    [k \in 1..Len(raws) |->
         [page_content |-> extract_metadata(raws[k]).content,
          metadata |-> DocumentMetadata(extract_metadata(raws[k]).metadata)]]

\* load_documents_from_local, lines 274-302: the handler of lines 300-302
\* turns any exception into an empty list.
load_documents_from_local(raws, accepts) ==
    IF LoadRaises(raws, accepts) THEN <<>> ELSE LoadedDocuments(raws)

\* Bound: the number of files of the data directory.
MaxDocs == 3

\* The files: quoted frontmatter and a heading; no frontmatter; a value with
\* an escape the YAML scanner rejects; an unquoted value, which leaves no
\* pair to load; an empty frontmatter and no heading.
IngestBody == <<"x", "\n", "#", " ", "h", "\n", "y">>

IngestFiles ==
    {RoundTrip(<<"k">>, <<"v">>, IngestBody),
     <<"\n", "#", " ", "c", "\n", "x">>,
     RoundTrip(<<"k">>, <<"\\", "k">>, IngestBody),
     Delimiter \o <<"\n", "k", ":", " ", "v", "\n">> \o Delimiter \o <<"\n">>
         \o IngestBody,
     Delimiter \o <<"\n">> \o Delimiter \o <<"\n", "x">>}

IngestStart ==
    /\ raw_documents \in SeqUpTo(IngestFiles, MaxDocs)
    /\ documents = <<>>
    /\ ing_chunks = <<>>
    /\ saved = <<>>
    /\ ing_failure = "none"
    /\ ing_pc = "load"

\* main, line 478: load_documents_from_local.
IngestLoad ==
    /\ UNCHANGED notIngest
    /\ ing_pc = "load"
    /\ \E accepts \in BOOLEAN :
         /\ documents' = load_documents_from_local(raw_documents, accepts)
         /\ ing_failure' = IF LoadRaises(raw_documents, accepts)
                            THEN "frontmatter" ELSE "none"
    /\ ing_pc' = "loaded"
    /\ UNCHANGED <<raw_documents, ing_chunks, saved>>

\* load_documents_from_local, line 290: the loader raises; lines 300-302.
IngestLoaderFails ==
    /\ UNCHANGED notIngest
    /\ ing_pc = "load"
    /\ documents' = <<>>
    /\ ing_failure' = "loader"
    /\ ing_pc' = "loaded"
    /\ UNCHANGED <<raw_documents, ing_chunks, saved>>

\* main, line 479: no documents, nothing is split or saved.
IngestSkip ==
    /\ UNCHANGED notIngest
    /\ ing_pc = "loaded"
    /\ documents = <<>>
    /\ ing_pc' = "done"
    /\ UNCHANGED <<raw_documents, documents, ing_chunks, saved, ing_failure>>

\* main, line 480: split_text (lines 350-361).
IngestSplit ==
    /\ UNCHANGED notIngest
    /\ ing_pc = "loaded"
    /\ documents # <<>>
    /\ ~SplitRaises(documents)
    /\ ing_chunks' =
           split_documents([k \in 1..Len(documents) |->
                                [page_content |-> documents[k].page_content,
                                 metadata |-> documents[k].metadata.mapping]],
                           SplitTextChunkSize)
    /\ ing_pc' = "save"
    /\ UNCHANGED <<raw_documents, documents, saved, ing_failure>>

\* main, line 480: split_text raises and nothing catches it.
IngestSplitRaises ==
    /\ UNCHANGED notIngest
    /\ ing_pc = "loaded"
    /\ documents # <<>>
    /\ SplitRaises(documents)
    /\ ing_failure' = "split"
    /\ ing_pc' = "crashed"
    /\ UNCHANGED <<raw_documents, documents, ing_chunks, saved>>

\* main, line 481: save_to_chroma_local hands the chunks to the index.
IngestSave ==
    /\ UNCHANGED notIngest
    /\ ing_pc = "save"
    /\ saved' = ing_chunks
    /\ ing_pc' = "done"
    /\ UNCHANGED <<raw_documents, documents, ing_chunks, ing_failure>>

\* main, line 481: the index raises and nothing catches it.
IngestSaveFails ==
    /\ UNCHANGED notIngest
    /\ ing_pc = "save"
    /\ ing_failure' = "index"
    /\ ing_pc' = "crashed"
    /\ UNCHANGED <<raw_documents, documents, ing_chunks, saved>>

-----------------------------------------------------------------------------
(***************************************************************************)
(* Concurrent query requests of one session                                *)
(***************************************************************************)

\* Bound: the number of requests in flight.
MaxRequests == 2

Requests == 1..MaxRequests

\* The query values of the requests and what main may return for them.
ConcQueries == {<<" ">>, <<"a">>, <<" ", "b">>}

ConcResponses ==
    {Strip(r) : r \in Replies} \cup {GenericErrorMessage, KnowledgeBaseMissingMessage}

\* The stored histories a session may start with: none, or one exchange.
ConcStores ==
    {EmptyMap,
     "history" :> <<[role |-> "user", content |-> <<"c">>],
                    [role |-> "assistant", content |-> <<"r">>]>>}

ConcStart ==
    /\ store \in ConcStores
    /\ req_pc = [r \in Requests |-> "new"]
    /\ req_query = [r \in Requests |-> <<>>]
    /\ req_session = [r \in Requests |-> EmptyMap]
    /\ req_history = [r \in Requests |-> <<>>]
    /\ req_response = [r \in Requests |-> <<>>]

\* The session is loaded from the store when the request starts; then
\* handle_query, lines 77-88.  A blank query is answered with 400 and the
\* session is not written.
ConcReceive ==
    /\ UNCHANGED notConc
    /\ \E r \in Requests, text \in ConcQueries :
         /\ req_pc[r] = "new"
         /\ req_session' = [req_session EXCEPT ![r] = store]
         /\ req_query' = [req_query EXCEPT ![r] = Strip(text)]
         /\ IF Strip(text) = <<>>
            THEN /\ req_pc' = [req_pc EXCEPT ![r] = "done"]
                 /\ UNCHANGED req_history
            ELSE /\ req_pc' = [req_pc EXCEPT ![r] = "main"]
                 /\ req_history' =
                        [req_history EXCEPT ![r] =
                             Append(StoredHistory(store),
                                    [role |-> "user", content |-> Strip(text)])]
    /\ UNCHANGED <<store, req_response>>

\* handle_query, line 91: main returns, with a reply or with an error text.
ConcMain ==
    /\ UNCHANGED notConc
    /\ \E r \in Requests, response \in ConcResponses :
         /\ req_pc[r] = "main"
         /\ req_response' = [req_response EXCEPT ![r] = response]
         /\ req_pc' = [req_pc EXCEPT ![r] = "respond"]
    /\ UNCHANGED <<store, req_query, req_session, req_history>>

\* handle_query, lines 94-100: append the assistant turn and assign the
\* history to the session, which is written to the store as the request ends.
ConcRespond ==
    /\ UNCHANGED notConc
    /\ \E r \in Requests :
         /\ req_pc[r] = "respond"
         /\ LET full == Append(req_history[r],
                               [role |-> "assistant", content |-> req_response[r]])
            IN  /\ req_history' = [req_history EXCEPT ![r] = full]
                /\ req_session' = [req_session EXCEPT ![r] = "history" :> full]
                /\ store' = ("history" :> full)
         /\ req_pc' = [req_pc EXCEPT ![r] = "done"]
    /\ UNCHANGED <<req_query, req_response>>

-----------------------------------------------------------------------------
(***************************************************************************)
(* Specifications                                                          *)
(***************************************************************************)

IdleTrunc ==
    /\ messages = <<>>
    /\ max_tokens = DefaultMaxTokens
    /\ reserved_tokens = DefaultReservedTokens
    /\ truncated_messages = <<>>
    /\ th_pc = "idle"

IdleLabel ==
    /\ metadata = EmptyMap
    /\ source = <<>>
    /\ gs_pc = "idle"

IdleApp ==
    /\ session = EmptyMap
    /\ pc = "off"
    /\ IdleRequest
    /\ failure = "none"
    /\ status = 0
    /\ body = EmptyMap

IdleSplit ==
    /\ document = [page_content |-> <<>>, metadata |-> EmptyMap]
    /\ chunk_size = SplitTextChunkSize
    /\ sections = <<>>
    /\ sec_i = 0
    /\ chunks = <<>>
    /\ sp_pc = "idle"

IdleMeta ==
    /\ raw = <<>>
    /\ extracted = NothingExtracted
    /\ em_pc = "idle"

IdleIngest ==
    /\ raw_documents = <<>>
    /\ documents = <<>>
    /\ ing_chunks = <<>>
    /\ saved = <<>>
    /\ ing_failure = "none"
    /\ ing_pc = "idle"

IdleConc ==
    /\ store = EmptyMap
    /\ req_pc = <<>>
    /\ req_query = <<>>
    /\ req_session = <<>>
    /\ req_history = <<>>
    /\ req_response = <<>>

vars == <<thVars, gsVars, appVars, spVars, emVars, ingVars, concVars>>

\* truncate_history on its own.
InitTrunc ==
    /\ TruncCall /\ IdleLabel /\ IdleApp /\ IdleSplit /\ IdleMeta /\ IdleIngest
    /\ IdleConc
NextTrunc == TruncateHistory
SpecTrunc == InitTrunc /\ [][NextTrunc]_vars

\* get_source_from_metadata on its own.
InitLabel ==
    /\ LabelCall /\ IdleTrunc /\ IdleApp /\ IdleSplit /\ IdleMeta /\ IdleIngest
    /\ IdleConc
NextLabel == GetSource
SpecLabel == InitLabel /\ [][NextLabel]_vars

\* One session of the web application: queries and resets, one at a time.
InitApp ==
    /\ AppStart /\ IdleTrunc /\ IdleLabel /\ IdleSplit /\ IdleMeta /\ IdleIngest
    /\ IdleConc
NextApp ==
    \/ QueryReceive
    \/ MainIndexMissing
    \/ MainRetrieveFails
    \/ MainRetrieve
    \/ MainInvoke
    \/ MainInvokeFails
    \/ QueryRespond
    \/ NewConversation
SpecApp == InitApp /\ [][NextApp]_vars

\* MarkdownSplitter.split_documents on one document.
InitSplit ==
    /\ SplitCall /\ IdleTrunc /\ IdleLabel /\ IdleApp /\ IdleMeta /\ IdleIngest
    /\ IdleConc
NextSplit ==
    \/ SplitOnHeadings
    \/ SplitSection
    \/ SplitReturn
SpecSplit == InitSplit /\ [][NextSplit]_vars

\* extract_metadata on its own.
InitMeta ==
    /\ MetaCall /\ IdleTrunc /\ IdleLabel /\ IdleApp /\ IdleSplit /\ IdleIngest
    /\ IdleConc
NextMeta == ExtractMetadata
SpecMeta == InitMeta /\ [][NextMeta]_vars

\* One run of the ingestion pipeline in local mode.
InitIngest ==
    /\ IngestStart /\ IdleTrunc /\ IdleLabel /\ IdleApp /\ IdleSplit /\ IdleMeta
    /\ IdleConc
NextIngest ==
    \/ IngestLoad
    \/ IngestLoaderFails
    \/ IngestSkip
    \/ IngestSplit
    \/ IngestSplitRaises
    \/ IngestSave
    \/ IngestSaveFails
SpecIngest == InitIngest /\ [][NextIngest]_vars

\* Requests of one session handled concurrently.
InitConc ==
    /\ ConcStart /\ IdleTrunc /\ IdleLabel /\ IdleApp /\ IdleSplit /\ IdleMeta
    /\ IdleIngest
NextConc ==
    \/ ConcReceive
    \/ ConcMain
    \/ ConcRespond
SpecConc == InitConc /\ [][NextConc]_vars

-----------------------------------------------------------------------------
(***************************************************************************)
(* Properties                                                              *)
(***************************************************************************)

\* The number of fences in a text, counted left to right without overlap.
RECURSIVE FenceCount(_)
FenceCount(s) ==
    LET f == Find(s, Fence, 0)
    IN  IF f = -1 THEN 0 ELSE 1 + FenceCount(From(s, f + 3))

\* C1 as written: for a document whose fenced code blocks are balanced, no
\* chunk produced by split_documents holds a partial code block: every fence
\* in a chunk has its partner in the same chunk, whatever the block contains.
C1_NoPartialCodeBlock ==
    (sp_pc = "done" /\ FenceCount(document.page_content) % 2 = 0) =>
        \A k \in 1..Len(chunks) : FenceCount(chunks[k].page_content) % 2 = 0

RECURSIVE SumTokens(_)
SumTokens(msgs) ==
    IF msgs = <<>> THEN 0 ELSE MessageTokens(Head(msgs)) + SumTokens(Tail(msgs))

\* C2: truncate_history returns a contiguous suffix of its input, in the
\* original order: no more messages than given, none reordered, and no kept
\* message older than a dropped one.
C2_SuffixOfInput ==
    th_pc = "done" =>
        /\ Len(truncated_messages) <= Len(messages)
        /\ \A k \in 1..Len(truncated_messages) :
               truncated_messages[k] =
                   messages[Len(messages) - Len(truncated_messages) + k]

\* C2 witness: a call that dropped an older message and kept two distinct ones.
C2_Witness ==
    /\ th_pc = "done"
    /\ Len(truncated_messages) = 2
    /\ Len(messages) = 3
    /\ truncated_messages[1] # truncated_messages[2]

\* C3 as written: the output always fits the budget, reserved_tokens plus the
\* cost of the kept messages is at most max_tokens.
C3_AlwaysFits ==
    th_pc = "done" =>
        reserved_tokens + SumTokens(truncated_messages) <= max_tokens

\* C3 amended: when reserved_tokens <= max_tokens the output fits the budget;
\* so does every call with the defaults 3000 and 500 that main makes.
C3_FitsWhenReserveFits ==
    (th_pc = "done" /\ reserved_tokens <= max_tokens) =>
        reserved_tokens + SumTokens(truncated_messages) <= max_tokens

\* C3 witness: a call with the defaults of main that had to drop a message
\* and kept one.
C3_Witness ==
    /\ th_pc = "done"
    /\ max_tokens = DefaultMaxTokens
    /\ reserved_tokens = DefaultReservedTokens
    /\ Len(truncated_messages) >= 1
    /\ Len(truncated_messages) < Len(messages)

\* C4: for the same messages and reserved_tokens, a larger max_tokens keeps at
\* least as many messages, and the smaller result is a suffix of the larger.
C4_MonotoneInBudget ==
    th_pc = "done" =>
        \A m \in Budgets :
            LET other == truncate_history(messages, m, reserved_tokens)
            IN  /\ m <= max_tokens =>
                    /\ Len(other) <= Len(truncated_messages)
                    /\ IsSuffix(other, truncated_messages)
                /\ m >= max_tokens =>
                    /\ Len(truncated_messages) <= Len(other)
                    /\ IsSuffix(truncated_messages, other)

\* C4 witness: a smaller budget of the range keeps strictly fewer messages.
C4_Witness ==
    /\ th_pc = "done"
    /\ Len(truncated_messages) = 2
    /\ \E m \in Budgets :
           /\ m < max_tokens
           /\ Len(truncate_history(messages, m, reserved_tokens)) = 1

\* C5 as written: a query whose processing fails (a collaborator raises, or
\* the index is missing) leaves the stored session history as it was before
\* the request.
C5_FailedQueryKeepsHistory ==
    [][(pc = "respond" /\ failure # "none") => session' = session]_vars

\* C6: a failure of the embedding function, the vector index or the chat
\* model never leaves main: main returns the generic error response with no
\* sources, and the endpoint answers 200 with a payload holding 'response'
\* and 'sources'.
C6_CollaboratorFailureCaught ==
    /\ (pc = "respond" /\ failure \in CollaboratorFailures) =>
           outcome = [raised |-> FALSE, response |-> GenericErrorMessage,
                      sources |-> <<>>]
    /\ (pc = "idle" /\ failure \in CollaboratorFailures) =>
           /\ status = 200
           /\ DOMAIN body = {"response", "sources"}
           /\ body["response"] = GenericErrorMessage
           /\ body["sources"] = <<>>

\* C6 witness: the request whose chat model call raised has been answered.
C6_Witness ==
    /\ pc = "idle"
    /\ failure = "model"
    /\ status = 200
    /\ "response" \in DOMAIN body

\* The results at or above the threshold, in the order supplied.
KeptResults == SelectSeq(results, LAMBDA r : r.score >= RelevanceThreshold)

RECURSIVE JoinContents(_)
JoinContents(rs) ==
    IF rs = <<>> THEN <<>>
    ELSE Head(rs).document.page_content \o Separator \o JoinContents(Tail(rs))

\* C7: exactly the results whose score is >= 0.7, the threshold included,
\* contribute to the context and to the sources, their contents in the order
\* supplied; with no such result the context is the empty string and the
\* sources are empty.
C7_RelevanceThreshold ==
    pc = "invoke" =>
        /\ context_text = JoinContents(KeptResults)
        /\ {sources[i] : i \in 1..Len(sources)} =
               {get_source_from_metadata(KeptResults[i].document.metadata) :
                    i \in 1..Len(KeptResults)}
        /\ KeptResults = <<>> => (context_text = <<>> /\ sources = <<>>)

\* C7 witness: three results, one exactly at the threshold and kept, one
\* below it and left out.
C7_Witness ==
    /\ pc = "invoke"
    /\ Len(results) = 3
    /\ results[1].score = 50
    /\ results[2].score = 70
    /\ results[3].score = 90
    /\ context_text = <<"b">> \o Separator \o <<"a">> \o Separator
    /\ Len(sources) = 2

\* C8: the sources returned by a successful query are exactly the labels of
\* the kept chunks, without duplicates and in ascending lexicographic order,
\* whatever the order and multiplicity of the retrieved chunks.
C8_SourcesSortedDistinct ==
    (pc = "respond" /\ failure = "none") =>
        /\ {outcome.sources[i] : i \in 1..Len(outcome.sources)} =
               {get_source_from_metadata(KeptResults[i].document.metadata) :
                    i \in 1..Len(KeptResults)}
        /\ \A i \in 1..(Len(outcome.sources) - 1) :
               StrLess(outcome.sources[i], outcome.sources[i + 1])

\* C8 witness: the metadata of the claim's example, one of them twice and in
\* descending label order, answered with ["S3", "Storage - S3"].
C8_Witness ==
    /\ pc = "respond"
    /\ failure = "none"
    /\ Len(results) = 3
    /\ \A i \in 1..3 : results[i].score >= RelevanceThreshold
    /\ DOMAIN results[1].document.metadata = {"page_title", "subcategory"}
    /\ DOMAIN results[2].document.metadata = {"page_title"}
    /\ DOMAIN results[3].document.metadata = {"page_title"}
    /\ outcome.sources = <<S3, Storage \o <<" ", "-", " ">> \o S3>>

\* A key of the metadata is present with a value that is not blank.
HasText(md, key) ==
    key \in DOMAIN md /\ \E i \in 1..Len(md[key]) : ~IsSpace(md[key][i])

\* C9: get_source_from_metadata depends only on the trimmed page_title and
\* subcategory: both non-empty give "{subcategory} - {page_title}", exactly
\* one non-empty gives that one, neither (absent, empty or blank) gives
\* "unknown source".
C9_SourceLabel ==
    gs_pc = "done" =>
        LET title == HasText(metadata, "page_title")
            sub == HasText(metadata, "subcategory")
        IN  /\ (title /\ sub) =>
                   source = Strip(metadata["subcategory"]) \o <<" ", "-", " ">>
                                \o Strip(metadata["page_title"])
            /\ (title /\ ~sub) => source = Strip(metadata["page_title"])
            /\ (~title /\ sub) => source = Strip(metadata["subcategory"])
            /\ (~title /\ ~sub) => source = UnknownSource

\* C9 witness: a padded title next to a blank subcategory gives the bare title.
C9_Witness ==
    /\ gs_pc = "done"
    /\ DOMAIN metadata = {"page_title", "subcategory"}
    /\ metadata["page_title"] = <<" ", "S", "3">>
    /\ metadata["subcategory"] = <<" ">>
    /\ source = <<"S", "3">>

\* C10 as written: for any key, quoted value and body, extract_metadata of
\* the document ---\nkey: "value"\n---\nBODY returns the mapping {key: value}
\* and the trimmed BODY, also when the value or the body contains "---".
C10_FrontmatterRoundTrip ==
    em_pc = "done" =>
        \A k \in MetaKeys, v \in MetaValues, b \in MetaBodies :
            raw = RoundTrip(k, v, b) =>
                /\ ~extracted.metadata.is_none
                /\ extracted.metadata.mapping = (k :> v)
                /\ extracted.content = Strip(b)

\* C11: a text that does not begin with "---", or begins with it and has no
\* further "---", comes back unchanged (not trimmed) with an empty mapping,
\* and nothing is raised.
C11_NoFrontmatterFallback ==
    (em_pc = "done" /\ (~StartsWith(raw, Delimiter) \/ Find(raw, Delimiter, 3) = -1)) =>
        /\ ~extracted.raises
        /\ ~extracted.metadata.is_none
        /\ extracted.metadata.mapping = EmptyMap
        /\ extracted.content = raw

\* An opening delimiter with no closing one, and trailing whitespace that
\* trimming would remove.
C11_Witness ==
    /\ em_pc = "done"
    /\ StartsWith(raw, Delimiter)
    /\ Find(raw, Delimiter, 3) = -1
    /\ Strip(raw) # raw
    /\ extracted.content = raw

\* The chunks split_text makes of one file that loads on its own.
FileChunks(text) ==
    LET e == extract_metadata(text)
    IN  DocumentChunks([page_content |-> e.content,
                        metadata |-> DocumentMetadata(e.metadata).mapping],
                       SplitTextChunkSize)

\* A file whose frontmatter parses into a mapping, or that has none.
Loadable(text) ==
    ~extract_metadata(text).raises /\ ~extract_metadata(text).metadata.is_none

\* C12: when a run in which the loader and the index work is over, every
\* chunk of every file whose frontmatter parses has been handed to the index,
\* whatever the other files of the run hold.
C12_IngestionErrorsPerDocument ==
    (ing_pc \in {"done", "crashed"} /\ ing_failure \notin {"loader", "index"}) =>
        \A k \in 1..Len(raw_documents) :
            Loadable(raw_documents[k]) =>
                \A c \in 1..Len(FileChunks(raw_documents[k])) :
                    \E j \in 1..Len(saved) : saved[j] = FileChunks(raw_documents[k])[c]

\* The heading lines of a text: the lines that start with one to six "#" and
\* a space; and the text of such a line, without its leading "#" characters
\* and the whitespace around it.
IsHeadingLine(line) ==
    /\ HashRun(line, 0) \in 1..6
    /\ HashRun(line, 0) < Len(line)
    /\ line[HashRun(line, 0) + 1] = " "

HeadingLines(text) ==
    {k \in 1..Len(SplitLines(text)) : IsHeadingLine(SplitLines(text)[k])}

HeadingText(line) == Strip(From(line, HashRun(line, 0)))

\* C13: every chunk's heading is the text of one of the document's heading
\* lines with only its leading "#" characters and the surrounding whitespace
\* removed, and there are at most as many distinct headings as heading lines.
C13_HeadingCoverage ==
    sp_pc = "done" =>
        LET lines == SplitLines(document.page_content)
            texts == {HeadingText(lines[k]) : k \in HeadingLines(document.page_content)}
            headings == {chunks[k].metadata["heading"] : k \in 1..Len(chunks)}
        IN  /\ headings \subseteq texts
            /\ Cardinality(headings) <= Cardinality(HeadingLines(document.page_content))

\* C14: every heading line of the document, the first line included, has a
\* chunk that holds it.
C14_EveryHeadingOpensSection ==
    sp_pc = "done" =>
        \A k \in HeadingLines(document.page_content) :
            \E c \in 1..Len(chunks) :
                Find(chunks[c].page_content,
                     Strip(SplitLines(document.page_content)[k]), 0) # -1

\* C15: a query request whose text is empty or only whitespace is answered
\* with status 400 and an error payload; main is not entered, and the stored
\* history and the locals of the orchestrator stay as they were.
C15_BlankQueryRejected ==
    [][\A text \in RawQueries :
           (pc = "idle" /\ Strip(text) = <<>> /\ HandleQuery(text)) =>
               /\ status' = 400
               /\ DOMAIN body' = {"error"}
               /\ pc' = "idle"
               /\ session' = session
               /\ UNCHANGED <<query_text, history, results, context_text,
                              sources, sent, outcome>>]_vars

\* A blank query was rejected on a session that holds a stored history.
C15_Witness ==
    /\ status = 400
    /\ pc = "idle"
    /\ Len(StoredHistory(session)) > 0

\* C16: once the reset has answered, the session holds no history, whatever
\* it held before, and the next query is processed with a history that
\* consists of its own user turn only.  (The payload of the last response is
\* the reset's confirmation exactly when no query has been answered since.)
C16_ResetClearsHistory ==
    "message" \in DOMAIN body =>
        /\ status = 200
        /\ body["message"] = NewConversationStarted
        /\ StoredHistory(session) = <<>>
        /\ pc # "idle" => history = <<[role |-> "user", content |-> query_text]>>

\* The first query after a reset is with the orchestrator.
C16_Witness ==
    /\ "message" \in DOMAIN body
    /\ pc = "invoke"
    /\ Len(history) = 1

\* C17: when the chat model has replied and the sources are not empty, the
\* response main returns holds a line "- {label}" for every source, in the
\* order of the sources.  (No reply of the model holds a sources section.)
C17_SourcesSectionAppended ==
    (pc = "respond" /\ failure = "none" /\ outcome.sources # <<>>) =>
        /\ \A i \in 1..Len(outcome.sources) :
               Find(outcome.response, <<"\n", "-", " ">> \o outcome.sources[i], 0) # -1
        /\ \A i, j \in 1..Len(outcome.sources) :
               i < j =>
                   Find(outcome.response, <<"\n", "-", " ">> \o outcome.sources[i], 0)
                       < Find(outcome.response, <<"\n", "-", " ">> \o outcome.sources[j], 0)

\* C18: when the index directory is missing, main returns the knowledge-base
\* message, which is not the generic failure message, with no sources, and
\* nothing has been retrieved or sent to the chat model for that request.
C18_IndexMissingMessage ==
    (pc = "respond" /\ failure = "index_missing") =>
        /\ outcome = Returned(KnowledgeBaseMissingMessage, <<>>)
        /\ outcome.response # GenericErrorMessage
        /\ results = <<>>
        /\ context_text = <<>>
        /\ sent = <<>>

\* The index went missing in the middle of a conversation.
C18_Witness ==
    /\ pc = "respond"
    /\ failure = "index_missing"
    /\ Len(history) > 1

\* C19: for every non-empty list of messages the newest one is in the
\* output, whatever its size.
C19_NewestTurnKept ==
    (th_pc = "done" /\ messages # <<>>) =>
        /\ truncated_messages # <<>>
        /\ truncated_messages[Len(truncated_messages)] = messages[Len(messages)]

\* C20: when truncation drops any message of the list main built, the
\* system message is among the dropped ones: the list sent to the chat model
\* holds no system message.
C20_SystemMessageUnprotected ==
    (pc = "invoke" /\ Len(sent) < Len(BuildMessages(context_text, history))) =>
        \A i \in 1..Len(sent) : sent[i].role # "system"

\* The chat model is about to be invoked with the user's turn and without
\* the system message.
C20_Witness ==
    /\ pc = "invoke"
    /\ sent # <<>>
    /\ Len(sent) < Len(BuildMessages(context_text, history))
    /\ \A i \in 1..Len(sent) : sent[i].role # "system"

\* C21 as stated: a chunk that holds a code unit, fenced block or inline
\* span, holds nothing else: splitting the chunk on code units gives back
\* either the chunk (it holds no unit) or the unit alone between two empty
\* texts.
C21_CodeUnitOwnChunk ==
    sp_pc = "done" =>
        \A k \in 1..Len(chunks) :
            LET parts == SplitCodeFrom(chunks[k].page_content, 0)
            IN  \/ Len(parts) = 1
                \/ parts = <<<<>>, chunks[k].page_content, <<>>>>

\* C21, amended: a chunk that holds a fenced block holds nothing else; an
\* inline span may share its chunk with the text around it.
C21_FencedBlockOwnChunk ==
    sp_pc = "done" =>
        \A k \in 1..Len(chunks) :
            LET parts == SplitCodeFrom(chunks[k].page_content, 0)
            IN  (\E j \in 1..Len(parts) : j % 2 = 0 /\ StartsWith(parts[j], Fence))
                    => parts = <<<<>>, chunks[k].page_content, <<>>>>

\* A section with text, an inline span and a fenced block has been split: one
\* chunk is the block alone, another holds the span together with text.
C21_Witness ==
    /\ sp_pc = "done"
    /\ \E k \in 1..Len(chunks) :
           /\ StartsWith(chunks[k].page_content, Fence)
           /\ SplitCodeFrom(chunks[k].page_content, 0)
                  = <<<<>>, chunks[k].page_content, <<>>>>
    /\ \E k \in 1..Len(chunks) :
           LET parts == SplitCodeFrom(chunks[k].page_content, 0)
           IN  Len(parts) > 1 /\ ~StartsWith(parts[2], Fence) /\ parts[1] # <<>>

\* C24: no chunk has empty content.
C24_NoEmptyChunk ==
    sp_pc = "done" =>
        \A k \in 1..Len(chunks) : chunks[k].page_content # <<>>

\* A label with every run of whitespace replaced by one space.
RECURSIVE CollapseSpaces(_)
CollapseSpaces(label) ==
    IF label = <<>> THEN <<>>
    ELSE IF IsSpace(Head(label))
    THEN <<" ">> \o CollapseSpaces(From(label, SpaceRun(label, 0)))
    ELSE <<Head(label)>> \o CollapseSpaces(Tail(label))

\* C22: the sources of a response hold no two labels that differ only in the
\* length of an internal run of whitespace.
C22_LabelsWhitespaceCollapsed ==
    (pc = "respond" /\ failure = "none") =>
        \A i, j \in 1..Len(outcome.sources) :
            CollapseSpaces(outcome.sources[i]) = CollapseSpaces(outcome.sources[j])
                => i = j

\* C23: when all the requests of the session have completed, the stored
\* history holds, for every request that was not rejected, its user turn
\* followed by its assistant turn.
C23_NoLostUpdate ==
    (\A r \in Requests : req_pc[r] = "done") =>
        \A r \in Requests :
            req_query[r] # <<>> =>
                \E i \in 1..(Len(StoredHistory(store)) - 1) :
                    /\ StoredHistory(store)[i] =
                           [role |-> "user", content |-> req_query[r]]
                    /\ StoredHistory(store)[i + 1] =
                           [role |-> "assistant", content |-> req_response[r]]

====
